---- MODULE Spec2Model ----
(***************************************************************************)
(* A model of SequenceGenie's core: the barcode demultiplexer              *)
(* (utils.bin_seqs / utils._bin_seq), the consensus reconstructors         *)
(* (utils._replace_indels, nicole._strip), the variant classifier          *)
(* (utils.analyse_vcf) and the range compressor (utils._get_ranges).       *)
(*                                                                         *)
(* Python values are modelled as follows.  None is the integer -1 where a  *)
(* position is expected and the empty tuple where a barcode pair is        *)
(* expected.  A read of the demultiplexer is known to the code only by the *)
(* scores fuzzywuzzy's partial_ratio gives its two windows, so a read is   *)
(* its identity plus that score table.                                     *)
(***************************************************************************)
EXTENDS Integers, Sequences, FiniteSets, TLC

VARIABLES
    \* ---- demultiplexer (utils.bin_seqs) --------------------------------
    barcodes,           \* the ordered collection of barcode pairs
    sequences,          \* the reads handed to bin_seqs
    barcode_seqs,       \* defaultdict(list): key -> reference of its list (0: absent)
    lists,              \* the list objects, by reference
    max_barcode_len,    \* bin_seqs' local
    main_pc,            \* position of the thread that called bin_seqs
    next_task,          \* index of the next read of `for seq in sequences`
    tasks,              \* the pool's queue (Queue(num_threads))
    unfinished,         \* the queue's unfinished_tasks counter
    worker,             \* per worker thread: pc, the read it holds, the list it holds
    \* ---- one call of utils._bin_seq, hypothesis by hypothesis ----------
    scan,
    \* ---- reconstruction (utils._replace_indels, nicole._strip) ----------
    policy,             \* which of the two functions runs
    templ_seq,          \* the wildtype template
    mut_templ_seq,      \* the mutant-aware template (nicole only)
    read,               \* the read the loop body last ran on
    read_no,            \* how many reads the loop has taken from the file
    records,            \* qnames of the records produced so far, in order
    record_seq,         \* the sequence of the record produced for `read`
    joined_seq,         \* the local `seq` of the pass: the joined bases
    recon_pc,
    \* ---- variant classifier (utils.analyse_vcf) -------------------------
    df,                 \* the rows of the VCF file, as _vcf_to_df builds them
    dp_filter,          \* the depth filter, a rational [num, den]
    row_idx,            \* rows the loop has classified
    num_matches,
    mutations,
    indels,
    deletions,
    vcf_result,         \* analyse_vcf's fourth return value
    vcf_pc,
    \* ---- range compressor (utils._get_ranges) ---------------------------
    vals,
    ranges,
    ranges_pc

demux_vars == <<barcodes, sequences, barcode_seqs, lists, max_barcode_len,
                main_pc, next_task, tasks, unfinished, worker>>

recon_vars == <<policy, templ_seq, mut_templ_seq, read, read_no, records,
                record_seq, joined_seq, recon_pc>>

vcf_vars == <<df, dp_filter, row_idx, num_matches, mutations, indels,
              deletions, vcf_result, vcf_pc>>

ranges_vars == <<vals, ranges, ranges_pc>>

vars == <<demux_vars, scan, recon_vars, vcf_vars, ranges_vars>>

----------------------------------------------------------------------------
(* Bounds of the model *)

MaxReads == 2           \* reads in one demultiplex call
MaxPairs == 2           \* barcode pairs in one call

\* The pool's threads.  bin_seqs takes the width as num_threads (default 8);
\* the runs modelled here call it with two workers, which is also the
\* capacity of the pool's queue.
Workers == {"w1", "w2"}
num_threads == Cardinality(Workers)

ScoreSpan == 2          \* scores of a scanned read: threshold-1 .. threshold+ScoreSpan

TemplLen == 2           \* bases of the template
MaxAlnLen == 2          \* pairs of one read's alignment
MaxBatch == 2           \* reads of one SAM file
MaxRows == 2            \* rows of one VCF file
MaxVal == 7             \* largest position handed to _get_ranges
MaxLen == 3             \* positions handed to _get_ranges

score_threshold == 90   \* bin_seqs' default
None == -1              \* Python's None where a position is expected

\* partial_ratio returns an integer in 0..100; the values around the
\* threshold are the ones the comparisons of _bin_seq can tell apart.
PoolScores == {score_threshold, score_threshold + 1}
ScanScores == (score_threshold - 1)..(score_threshold + ScoreSpan)

Barcodes == {"AAG", "CCGT"}
AllPairs == Barcodes \X Barcodes

\* The pairs of the pool's runs: one whose two primers differ (its forward
\* and reverse hypotheses differ) and one with the same primer at both ends.
PoolPairs == {<<"AAG", "CCGT">>, <<"CCGT", "CCGT">>}
Undefined == <<"undefined">>
Keys == AllPairs \cup {Undefined}
NonePair == <<>>

\* All sequences over S of length at most n.
SeqsUpTo(S, n) == UNION {[1..k -> S] : k \in 0..n}

Reads(scores) == [start : [Barcodes -> scores], end : [Barcodes -> scores]]

\* The reads of the pool's runs: a window bears at most one barcode, so at
\* most one barcode scores above the threshold on each side.
AtMostOneAbove(f) == Cardinality({b \in Barcodes : f[b] > score_threshold}) <= 1
PoolReads == {r \in Reads(PoolScores) : AtMostOneAbove(r.start) /\ AtMostOneAbove(r.end)}

RECURSIVE MaxOf(_)
MaxOf(S) == LET x == CHOOSE y \in S : TRUE
            IN  IF S = {x} THEN x
                ELSE LET m == MaxOf(S \ {x}) IN IF x > m THEN x ELSE m

----------------------------------------------------------------------------
(* utils._bin_seq *)

\* partial_ratio(barcode, trim_seq_start) and
\* partial_ratio(barcode, trim_seq_end.reverse_complement())
partial_ratio(barcode, seq, side) == seq[side][barcode]

scores_forw(seq, pair) == <<partial_ratio(pair[1], seq, "start"),
                            partial_ratio(pair[2], seq, "end")>>

scores_rev(seq, pair) == <<partial_ratio(pair[2], seq, "start"),
                           partial_ratio(pair[1], seq, "end")>>

ExceedsOrTies(scores, max_scores) ==
    scores[1] >= max_scores[1] /\ scores[2] >= max_scores[2]

ExceedsEither(scores, max_scores) ==
    scores[1] > max_scores[1] \/ scores[2] > max_scores[2]

\* scores[0] > max_scores[0] and scores[1] > max_scores[1]
Exceeds(scores, max_scores) ==
    scores[1] > max_scores[1] /\ scores[2] > max_scores[2]

\* One `if` of the loop body: best is [max_scores, selected_barcodes].
TryHypothesis(best, pair, scores) ==
    IF Exceeds(scores, best.max_scores)
    THEN [max_scores |-> scores, selected_barcodes |-> pair]
    ELSE best

TryPair(best, seq, pair) ==
    TryHypothesis(TryHypothesis(best, pair, scores_forw(seq, pair)),
                  pair, scores_rev(seq, pair))

InitialBest == [max_scores |-> <<score_threshold, score_threshold>>,
                selected_barcodes |-> NonePair]

RECURSIVE ScanPairs(_, _, _, _)
ScanPairs(best, seq, pairs, i) ==
    IF i > Len(pairs) THEN best
    ELSE ScanPairs(TryPair(best, seq, pairs[i]), seq, pairs, i + 1)

\* The pair _bin_seq selects for a read (NonePair: none).
SelectBarcodes(seq, pairs) ==
    ScanPairs(InitialBest, seq, pairs, 1).selected_barcodes

\* `if selected_barcodes:` -- a tuple is true when it is not empty.
TruthyPair(p) == p /= NonePair

----------------------------------------------------------------------------
(* The shared defaultdict(list) *)

\* What a dict.get(key, []) would do: a fresh list that the dict never holds.
GetNoInsert(d, heap, key) ==
    IF d[key] /= 0
    THEN [d |-> d, heap |-> heap, ref |-> d[key]]
    ELSE [d |-> d, heap |-> Append(heap, <<>>), ref |-> Len(heap) + 1]

\* barcode_seqs[key]: one BINARY_SUBSCR.  An absent key runs
\* defaultdict.__missing__, which creates the list and stores it before the
\* interpreter can switch threads.
GetItem(d, heap, key) ==
    IF d[key] /= 0
    THEN [d |-> d, heap |-> heap, ref |-> d[key]]
    ELSE [d |-> [d EXCEPT ![key] = Len(heap) + 1],
          heap |-> Append(heap, <<>>),
          ref |-> Len(heap) + 1]

ListOverwrite(heap, ref, x) == [heap EXCEPT ![ref] = <<x>>]

\* list.append(x) on the list object `ref`: one call, atomic under the GIL.
ListAppend(heap, ref, x) == [heap EXCEPT ![ref] = Append(heap[ref], x)]

\* The content of a key's bin as the caller reads it (absent: empty).
Bin(key) == IF barcode_seqs[key] = 0 THEN <<>> ELSE lists[barcode_seqs[key]]

EmptyDict == [k \in Keys |-> 0]

IdleWorker == [pc |-> "idle", seq |-> 0, ref |-> 0]

ScanOff == [pc |-> "off", i |-> 0,
            max_scores |-> <<0, 0>>, selected_barcodes |-> NonePair]

----------------------------------------------------------------------------
(* utils._get_ranges and utils._get_ranges_str *)

\* The key of groupby(enumerate(vals), lambda (x, y): y - x) for the i-th
\* element (enumerate counts from 0).
GroupKeyValue(v, i) == v[i]

GroupKey(v, i) == v[i] - (i - 1)

\* Lines 322-324: one range (first value, last value) per run of
\* consecutive elements with equal keys.
RECURSIVE GroupRanges(_, _, _)
GroupRanges(v, i, acc) ==
    IF i > Len(v) THEN acc
    ELSE IF i > 1 /\ GroupKey(v, i) = GroupKey(v, i - 1)
         THEN GroupRanges(v, i + 1,
                          [acc EXCEPT ![Len(acc)] = <<acc[Len(acc)][1], v[i]>>])
         ELSE GroupRanges(v, i + 1, Append(acc, <<v[i], v[i]>>))

_get_ranges(v) == GroupRanges(v, 1, <<>>)

\* Lines 312-315: "start-end" for a range of more than one value, the bare
\* integer otherwise.
_get_ranges_str(v) ==
    LET rs == _get_ranges(v)
    IN  [k \in DOMAIN rs |->
            IF rs[k][1] /= rs[k][2] THEN [str |-> <<rs[k][1], "-", rs[k][2]>>]
                                    ELSE [int |-> rs[k][1]]]

VcfOff ==
    /\ df = <<>>
    /\ dp_filter = [num |-> 0, den |-> 1]
    /\ row_idx = 0
    /\ num_matches = 0
    /\ mutations = <<>>
    /\ indels = <<>>
    /\ deletions = <<>>
    /\ vcf_result = <<>>
    /\ vcf_pc = "off"

RangesOff ==
    /\ vals = <<>>
    /\ ranges = <<>>
    /\ ranges_pc = "off"

----------------------------------------------------------------------------
(* Reads and alignments of the reconstructors.  A sequence is a tuple of   *)
(* one-letter strings; Python's position p is element p + 1.               *)

ReadBases == {"A", "C", "N"}
TemplBases == {"A", "N"}
MutCodes == {"A", "M"}

\* synbiochem's INV_NUCL_CODES, for the codes the templates use.
INV_NUCL_CODES(code) ==
    CASE code = "A" -> {"A"}
      [] code = "C" -> {"C"}
      [] code = "M" -> {"A", "C"}
      [] code = "N" -> {"A", "C", "G", "T"}

\* pysam's aligned_pairs of a read mapped at ref_start with the operations
\* ops: "M" pairs a read base with a template base, "I" is a read base with
\* no template position, "D" a template position with no read base.
RECURSIVE PairsOf(_, _, _)
PairsOf(ops, q, t) ==
    IF ops = <<>> THEN <<>>
    ELSE CASE Head(ops) = "M" -> <<<<q, t>>>> \o PairsOf(Tail(ops), q + 1, t + 1)
           [] Head(ops) = "I" -> <<<<q, None>>>> \o PairsOf(Tail(ops), q + 1, t)
           [] Head(ops) = "D" -> <<<<None, t>>>> \o PairsOf(Tail(ops), q, t + 1)

NumOf(ops, kinds) == Cardinality({i \in DOMAIN ops : ops[i] \in kinds})

\* The reads a SAM file can hold: every template position within the
\* template, the read as long as the operations that consume it.
ReadsWith(ops) ==
    { [seq |-> sq, aligned_pairs |-> PairsOf(ops, 0, ref_start)] :
        sq \in [1..NumOf(ops, {"M", "I"}) -> ReadBases],
        ref_start \in {r \in 0..(TemplLen - 1) :
                          r + NumOf(ops, {"M", "D"}) <= TemplLen} }

AlignedReads == UNION {ReadsWith(ops) : ops \in SeqsUpTo({"M", "I", "D"}, MaxAlnLen)}

NoRead == [seq |-> <<>>, aligned_pairs |-> <<>>]

ReconOff ==
    /\ policy = "off"
    /\ templ_seq = <<>>
    /\ mut_templ_seq = <<>>
    /\ read = NoRead
    /\ read_no = 0
    /\ records = <<>>
    /\ record_seq = <<>>
    /\ joined_seq = <<>>
    /\ recon_pc = "off"

\* `if x` of a position: None and 0 are both false.
Truthy(x) == x /= None /\ x /= 0

\* seq[p]
At(sq, p) == sq[p + 1]

RECURSIVE MinOf(_)
MinOf(S) == LET x == CHOOSE y \in S : TRUE
            IN  IF S = {x} THEN x
                ELSE LET m == MinOf(S \ {x}) IN IF x < m THEN x ELSE m

\* seq[:k] and seq[k:] for 0 <= k
Upto(sq, k) == SubSeq(sq, 1, IF k < Len(sq) THEN k ELSE Len(sq))
From(sq, k) == SubSeq(sq, k + 1, Len(sq))

\* utils._replace_indels, lines 300-304 (and align.py, lines 76-80):
\* ''.join([read.seq[pair[0]] if pair[0] else templ_seq[pair[1]]
\*          for pair in read.aligned_pairs if pair[1] is not None])
RECURSIVE GapOnlySeq(_, _, _)
GapOnlySeq(pairs, rseq, templ) ==
    IF pairs = <<>> THEN <<>>
    ELSE LET pair == Head(pairs)
             rest == GapOnlySeq(Tail(pairs), rseq, templ)
         IN  IF pair[2] /= None
             THEN <<IF Truthy(pair[1]) THEN At(rseq, pair[1])
                                       ELSE At(templ, pair[2])>> \o rest
             ELSE rest

\* A _valid without the test against the two templates.
_validAnyBase(pair, rseq, templ, mut_templ) ==
    /\ Truthy(pair[1])
    /\ At(rseq, pair[1]) /= "N"

\* nicole._valid, lines 70-73.
_valid(pair, rseq, templ, mut_templ) ==
    /\ Truthy(pair[1])
    /\ At(rseq, pair[1]) /= "N"
    /\ \/ At(rseq, pair[1]) \in INV_NUCL_CODES(At(mut_templ, pair[2]))
       \/ At(rseq, pair[1]) = At(templ, pair[2])

\* nicole._strip, lines 55-59.
RECURSIVE ValidatedSeq(_, _, _, _)
ValidatedSeq(pairs, rseq, templ, mut_templ) ==
    IF pairs = <<>> THEN <<>>
    ELSE LET pair == Head(pairs)
             rest == ValidatedSeq(Tail(pairs), rseq, templ, mut_templ)
         IN  IF pair[2] /= None
             THEN <<IF _valid(pair, rseq, templ, mut_templ)
                    THEN At(rseq, pair[1])
                    ELSE At(templ, pair[2])>> \o rest
             ELSE rest

\* zip(*read.aligned_pairs)[1]
TemplIdx(pairs) == {pairs[i][2] : i \in DOMAIN pairs}

\* [val for val in templ_idx if val]
TruthyTemplIdx(pairs) == {v \in TemplIdx(pairs) : Truthy(v)}

\* nicole._strip, lines 51-63, for one read: what the loop body does.
\* min() of an empty list raises ValueError out of _strip.
StripOutcome(rd, templ, mut_templ) ==
    IF rd.aligned_pairs = <<>> THEN [kind |-> "none", seq |-> <<>>, body |-> <<>>]
    ELSE IF TruthyTemplIdx(rd.aligned_pairs) = {}
    THEN [kind |-> "ValueError", seq |-> <<>>, body |-> <<>>]
    ELSE LET prefix == Upto(templ, MinOf(TruthyTemplIdx(rd.aligned_pairs)))
             suffix == From(templ, MaxOf(TemplIdx(rd.aligned_pairs)) + 1)
             sq == ValidatedSeq(rd.aligned_pairs, rd.seq, templ, mut_templ)
         IN  IF sq /= <<>>
             THEN [kind |-> "record", seq |-> prefix \o sq \o suffix, body |-> sq]
             ELSE [kind |-> "none", seq |-> <<>>, body |-> sq]

\* utils._replace_indels, lines 298-307, for one read.
ReplaceIndelsOutcome(rd, templ) ==
    LET sq == GapOnlySeq(rd.aligned_pairs, rd.seq, templ)
    IN  IF sq /= <<>> THEN [kind |-> "record", seq |-> sq, body |-> sq]
                      ELSE [kind |-> "none", seq |-> <<>>, body |-> sq]

DemuxOff ==
    /\ barcodes = <<>>
    /\ sequences = <<>>
    /\ barcode_seqs = EmptyDict
    /\ lists = <<>>
    /\ max_barcode_len = 0
    /\ main_pc = "off"
    /\ next_task = 1
    /\ tasks = <<>>
    /\ unfinished = 0
    /\ worker = [w \in Workers |-> IdleWorker]

InitRecon ==
    /\ policy \in {"replace_indels", "strip"}
    /\ templ_seq \in [1..TemplLen -> TemplBases]
    /\ IF policy = "strip" THEN mut_templ_seq \in [1..TemplLen -> MutCodes]
                           ELSE mut_templ_seq = <<>>
    /\ read = NoRead
    /\ read_no = 0
    /\ records = <<>>
    /\ record_seq = <<>>
    /\ joined_seq = <<>>
    /\ recon_pc = "loop"
    /\ DemuxOff
    /\ scan = ScanOff
    /\ VcfOff
    /\ RangesOff

\* The body of `for read in sam_file` on the next read of the file.
ReconRead ==
    /\ recon_pc = "loop"
    /\ read_no < MaxBatch
    /\ \E rd \in AlignedReads :
          LET out == IF policy = "strip"
                     THEN StripOutcome(rd, templ_seq, mut_templ_seq)
                     ELSE ReplaceIndelsOutcome(rd, templ_seq)
          IN  /\ read' = rd
              /\ read_no' = read_no + 1
              /\ record_seq' = out.seq
              /\ joined_seq' = out.body
              /\ records' = IF out.kind = "record"
                            THEN Append(records, read_no + 1) ELSE records
              /\ recon_pc' = IF out.kind = "ValueError" THEN "ValueError" ELSE "body_done"
    /\ UNCHANGED <<policy, templ_seq, mut_templ_seq, demux_vars, scan, vcf_vars, ranges_vars>>

\* Control is back at the head of the loop: `read` and `seq` of the pass
\* that ended are dead, the next pass rebinds them before any use.
ReconNext ==
    /\ recon_pc = "body_done"
    /\ read' = NoRead
    /\ record_seq' = <<>>
    /\ joined_seq' = <<>>
    /\ recon_pc' = "loop"
    /\ UNCHANGED <<policy, templ_seq, mut_templ_seq, read_no, records,
                   demux_vars, scan, vcf_vars, ranges_vars>>

\* The file is exhausted: the generator ends / _strip returns nucl_seqs.
ReconEnd ==
    /\ recon_pc = "loop"
    /\ recon_pc' = "done"
    /\ UNCHANGED <<policy, templ_seq, mut_templ_seq, read, read_no, records,
                   record_seq, joined_seq, demux_vars, scan, vcf_vars, ranges_vars>>

NextRecon == ReconRead \/ ReconNext \/ ReconEnd

SpecRecon == InitRecon /\ [][NextRecon]_vars

----------------------------------------------------------------------------
(* utils.bin_seqs: the calling thread, and the workers of                  *)
(* thread_utils.ThreadPool(num_threads) running _bin_seq                   *)

InitDemux ==
    /\ barcodes \in SeqsUpTo(PoolPairs, MaxPairs)
    /\ sequences \in SeqsUpTo(PoolReads, MaxReads)
    /\ barcode_seqs = EmptyDict
    /\ lists = <<>>
    /\ max_barcode_len = 0
    /\ main_pc = "start"
    /\ next_task = 1
    /\ tasks = <<>>
    /\ unfinished = 0
    /\ worker = [w \in Workers |-> IdleWorker]

Init == InitDemux /\ scan = ScanOff /\ ReconOff /\ VcfOff /\ RangesOff

\* Lines 45-52 and 59-60.  max() of an empty list raises ValueError before
\* `if barcodes:` is reached, so the else branch runs only for a collection
\* that is empty and yet has a maximum: none.
BinSeqsStart ==
    /\ main_pc = "start"
    /\ IF barcodes = <<>>
       THEN /\ main_pc' = "ValueError"
            /\ UNCHANGED <<max_barcode_len, barcode_seqs, lists>>
       ELSE /\ max_barcode_len' =
                MaxOf({Len(pair[k]) : pair \in {barcodes[i] : i \in DOMAIN barcodes},
                                      k \in 1..2})
            /\ IF Len(barcodes) > 0
               THEN /\ main_pc' = "add_task"
                    /\ UNCHANGED <<barcode_seqs, lists>>
               ELSE LET got == GetItem(barcode_seqs, lists, Undefined)
                    IN  /\ barcode_seqs' = got.d
                        /\ lists' = [got.heap EXCEPT ![got.ref] =
                                        got.heap[got.ref] \o
                                        [i \in DOMAIN sequences |-> i]]
                        /\ main_pc' = "returned"
    /\ UNCHANGED <<barcodes, sequences, next_task, tasks, unfinished, worker, scan, recon_vars, vcf_vars, ranges_vars>>

\* Line 55: thread_pool.add_task puts the task; Queue.put blocks while the
\* queue holds num_threads tasks and counts the task as unfinished.
AddTask ==
    /\ main_pc = "add_task"
    /\ next_task <= Len(sequences)
    /\ Len(tasks) < num_threads
    /\ tasks' = Append(tasks, next_task)
    /\ unfinished' = unfinished + 1
    /\ next_task' = next_task + 1
    /\ UNCHANGED <<barcodes, sequences, barcode_seqs, lists, max_barcode_len,
                   main_pc, worker, scan, recon_vars, vcf_vars, ranges_vars>>

\* Lines 58 and 62: wait_completion joins the queue, then bin_seqs returns.
WaitCompletion ==
    /\ main_pc = "add_task"
    /\ next_task > Len(sequences)
    /\ unfinished = 0
    /\ main_pc' = "returned"
    /\ UNCHANGED <<barcodes, sequences, barcode_seqs, lists, max_barcode_len,
                   next_task, tasks, unfinished, worker, scan, recon_vars, vcf_vars, ranges_vars>>

\* A worker takes the next task off the queue.
WorkerGet(w) ==
    /\ worker[w].pc = "idle"
    /\ tasks /= <<>>
    /\ worker' = [worker EXCEPT ![w] = [pc |-> "bin_seq", seq |-> Head(tasks), ref |-> 0]]
    /\ tasks' = Tail(tasks)
    /\ UNCHANGED <<barcodes, sequences, barcode_seqs, lists, max_barcode_len,
                   main_pc, next_task, unfinished, scan, recon_vars, vcf_vars, ranges_vars>>

\* Lines 229-250 and the subscript of line 251: the scan of the pairs reads
\* nothing another thread writes; barcode_seqs[selected_barcodes] is the
\* first access to shared state.
WorkerBinSeq(w) ==
    /\ worker[w].pc = "bin_seq"
    /\ LET selected_barcodes == SelectBarcodes(sequences[worker[w].seq], barcodes)
       IN  IF TruthyPair(selected_barcodes)
           THEN LET got == GetItem(barcode_seqs, lists, selected_barcodes)
                IN  /\ barcode_seqs' = got.d
                    /\ lists' = got.heap
                    /\ worker' = [worker EXCEPT ![w].pc = "append", ![w].ref = got.ref]
           ELSE /\ worker' = [worker EXCEPT ![w].pc = "task_done"]
                /\ UNCHANGED <<barcode_seqs, lists>>
    /\ UNCHANGED <<barcodes, sequences, max_barcode_len, main_pc, next_task,
                   tasks, unfinished, scan, recon_vars, vcf_vars, ranges_vars>>

\* Line 251: .append(seq) on the list the subscript returned.
WorkerAppend(w) ==
    /\ worker[w].pc = "append"
    /\ lists' = ListAppend(lists, worker[w].ref, worker[w].seq)
    /\ worker' = [worker EXCEPT ![w].pc = "task_done"]
    /\ UNCHANGED <<barcodes, sequences, barcode_seqs, max_barcode_len, main_pc,
                   next_task, tasks, unfinished, scan, recon_vars, vcf_vars, ranges_vars>>

\* The task returns; the worker reports it done and goes back to the queue.
WorkerTaskDone(w) ==
    /\ worker[w].pc = "task_done"
    /\ unfinished' = unfinished - 1
    /\ worker' = [worker EXCEPT ![w] = IdleWorker]
    /\ UNCHANGED <<barcodes, sequences, barcode_seqs, lists, max_barcode_len,
                   main_pc, next_task, tasks, scan, recon_vars, vcf_vars, ranges_vars>>

Next ==
    \/ BinSeqsStart
    \/ AddTask
    \/ WaitCompletion
    \/ \E w \in Workers : WorkerGet(w)
    \/ \E w \in Workers : WorkerBinSeq(w)
    \/ \E w \in Workers : WorkerAppend(w)
    \/ \E w \in Workers : WorkerTaskDone(w)

Spec == Init /\ [][Next]_vars

----------------------------------------------------------------------------
(* One call of utils._bin_seq on sequences[1], one hypothesis per step     *)

InitBinSeq ==
    /\ barcodes \in SeqsUpTo(AllPairs, MaxPairs)
    /\ sequences \in [1..1 -> Reads(ScanScores)]
    /\ barcode_seqs = EmptyDict
    /\ lists = <<>>
    /\ max_barcode_len = 0
    /\ main_pc = "off"
    /\ next_task = 1
    /\ tasks = <<>>
    /\ unfinished = 0
    /\ worker = [w \in Workers |-> IdleWorker]
    \* lines 232-233
    /\ scan = [pc |-> "forw", i |-> 1,
               max_scores |-> InitialBest.max_scores,
               selected_barcodes |-> InitialBest.selected_barcodes]
    /\ ReconOff
    /\ VcfOff
    /\ RangesOff

ScanBest == [max_scores |-> scan.max_scores,
             selected_barcodes |-> scan.selected_barcodes]

\* Lines 236-237 and 242-244.
ScanForw ==
    /\ scan.pc = "forw"
    /\ scan.i <= Len(barcodes)
    /\ LET pair == barcodes[scan.i]
           best == TryHypothesis(ScanBest, pair, scores_forw(sequences[1], pair))
       IN  scan' = [scan EXCEPT !.pc = "rev",
                                !.max_scores = best.max_scores,
                                !.selected_barcodes = best.selected_barcodes]
    /\ UNCHANGED <<demux_vars, recon_vars, vcf_vars, ranges_vars>>

\* Lines 239-240 and 246-248.
ScanRev ==
    /\ scan.pc = "rev"
    /\ LET pair == barcodes[scan.i]
           best == TryHypothesis(ScanBest, pair, scores_rev(sequences[1], pair))
       IN  scan' = [scan EXCEPT !.pc = "forw", !.i = scan.i + 1,
                                !.max_scores = best.max_scores,
                                !.selected_barcodes = best.selected_barcodes]
    /\ UNCHANGED <<demux_vars, recon_vars, vcf_vars, ranges_vars>>

\* Lines 250-251.
ScanFinish ==
    /\ scan.pc = "forw"
    /\ scan.i > Len(barcodes)
    /\ IF TruthyPair(scan.selected_barcodes)
       THEN LET got == GetItem(barcode_seqs, lists, scan.selected_barcodes)
            IN  /\ barcode_seqs' = got.d
                /\ lists' = ListAppend(got.heap, got.ref, 1)
       ELSE UNCHANGED <<barcode_seqs, lists>>
    /\ scan' = [scan EXCEPT !.pc = "done"]
    /\ UNCHANGED <<barcodes, sequences, max_barcode_len, main_pc, next_task,
                   tasks, unfinished, worker, recon_vars, vcf_vars, ranges_vars>>

NextBinSeq == ScanForw \/ ScanRev \/ ScanFinish

SpecBinSeq == InitBinSeq /\ [][NextBinSeq]_vars

----------------------------------------------------------------------------
(* Claims about the demultiplexer *)

RECURSIVE Count(_, _)
Count(s, x) == IF s = <<>> THEN 0
               ELSE (IF Head(s) = x THEN 1 ELSE 0) + Count(Tail(s), x)

ReadIds == DOMAIN sequences

AboveThreshold(scores) ==
    scores[1] > score_threshold /\ scores[2] > score_threshold

\* Some orientation hypothesis of some supplied pair clears the threshold.
SomeHypothesisAbove(i) ==
    \E j \in DOMAIN barcodes :
        \/ AboveThreshold(scores_forw(sequences[i], barcodes[j]))
        \/ AboveThreshold(scores_rev(sequences[i], barcodes[j]))

\* C1: called with no barcode pairs, bin_seqs completes normally and every
\* read is in the `undefined` bin (and in no other).
C1_NoBarcodesAllUndefined ==
    (barcodes = <<>> /\ main_pc \notin {"start", "off"}) =>
        /\ main_pc = "returned"
        /\ Bin(Undefined) = [i \in ReadIds |-> i]
        /\ \A k \in AllPairs : Bin(k) = <<>>

\* C2: with barcode pairs supplied, a read is in the bin of a supplied pair
\* exactly when some hypothesis of some supplied pair has both scores above
\* score_threshold, otherwise it is in no bin; no read is in `undefined`;
\* with a single pair, a read whose forward scores are both above the
\* threshold is in that pair's bin.
C2_BinnedIffAboveThreshold ==
    (main_pc = "returned" /\ barcodes /= <<>>) =>
        \A i \in ReadIds :
            /\ SomeHypothesisAbove(i) <=>
                   \E j \in DOMAIN barcodes : Count(Bin(barcodes[j]), i) > 0
            /\ ~SomeHypothesisAbove(i) => \A k \in Keys : Count(Bin(k), i) = 0
            /\ Count(Bin(Undefined), i) = 0
            /\ (Len(barcodes) = 1 /\
                AboveThreshold(scores_forw(sequences[i], barcodes[1])))
                   => Count(Bin(barcodes[1]), i) = 1

\* Two reads that clear the threshold forwards for the single supplied pair:
\* the pair's bin has size 2.
C2_Witness ==
    /\ main_pc = "returned"
    /\ Len(barcodes) = 1
    /\ Len(sequences) = 2
    /\ \A i \in ReadIds : AboveThreshold(scores_forw(sequences[i], barcodes[1]))
    /\ Len(Bin(barcodes[1])) = 2

\* C3: when bin_seqs returns, every task has completed, each read that
\* selected a pair is exactly once in that pair's bin and in no other bin,
\* and each read that selected none is in no bin.
C3_EachReadOnceInItsBin ==
    main_pc = "returned" =>
        /\ tasks = <<>> /\ unfinished = 0
        /\ \A w \in Workers : worker[w].pc = "idle"
        /\ \A i \in ReadIds : \A k \in Keys :
               Count(Bin(k), i) =
                   IF k = SelectBarcodes(sequences[i], barcodes) THEN 1 ELSE 0
        /\ \A r \in DOMAIN lists :
               lists[r] /= <<>> => \E k \in Keys : barcode_seqs[k] = r

\* bin_seqs returned with two reads in the same pair's bin.
C3_Witness ==
    /\ main_pc = "returned"
    /\ \E k \in AllPairs : Len(Bin(k)) = 2

\* C9 (step): the running best changes only to a hypothesis whose two scores
\* are both strictly greater than the incumbent's, the hypothesis tried at
\* this step (pair scan.i, forward before reverse).
C9_Step ==
    (scan'.max_scores /= scan.max_scores \/
     scan'.selected_barcodes /= scan.selected_barcodes) =>
        /\ scan.pc \in {"forw", "rev"} /\ scan.i \in DOMAIN barcodes
        /\ LET pair == barcodes[scan.i]
               hyp == IF scan.pc = "forw" THEN scores_forw(sequences[1], pair)
                                          ELSE scores_rev(sequences[1], pair)
           IN  /\ hyp[1] > scan.max_scores[1]
               /\ hyp[2] > scan.max_scores[2]
               /\ scan'.max_scores = hyp
               /\ scan'.selected_barcodes = pair

Hypotheses(j) == {scores_forw(sequences[1], barcodes[j]),
                  scores_rev(sequences[1], barcodes[j])}

\* C9 (result): no hypothesis of any pair strictly exceeds the final best on
\* both sides, and the selected pair is the earliest pair with a hypothesis
\* equal to the final best (a later tie did not displace it).
C9_Final ==
    scan.pc = "done" =>
        /\ \A j \in DOMAIN barcodes : \A h \in Hypotheses(j) :
               ~(h[1] > scan.max_scores[1] /\ h[2] > scan.max_scores[2])
        /\ IF scan.selected_barcodes = NonePair
           THEN scan.max_scores = <<score_threshold, score_threshold>>
           ELSE \E j \in DOMAIN barcodes :
                   /\ scan.max_scores \in Hypotheses(j)
                   /\ scan.selected_barcodes = barcodes[j]
                   /\ \A e \in 1..(j - 1) : scan.max_scores \notin Hypotheses(e)

\* C9: within _bin_seq the running best is replaced only by a hypothesis
\* strictly greater on both sides, pairs in order and forward before
\* reverse; ties never displace the incumbent and the final selection is
\* not exceeded on both sides by any hypothesis.
C9_RunningBest == [][C9_Step]_vars /\ [](C9_Final)

\* A later, different pair ties the selected first pair and did not displace it.
C9_Witness ==
    /\ scan.pc = "done"
    /\ Len(barcodes) >= 2
    /\ barcodes[2] /= barcodes[1]
    /\ scan.selected_barcodes = barcodes[1]
    /\ scan.max_scores \in Hypotheses(2)
    /\ scan.max_scores /= scores_forw(sequences[1], barcodes[1])

----------------------------------------------------------------------------
(* Claims about the reconstructors *)

PairsOfRead == read.aligned_pairs

BodyRan == recon_pc \in {"body_done", "ValueError"}

\* C4: gap-only policy, every pair with a read position and a template
\* position (read position 0 included): the record is the read's bases at
\* those read positions, in alignment order, whatever the template holds.
C4_GapOnlyKeepsReadBases ==
    (/\ policy = "replace_indels"
     /\ BodyRan
     /\ PairsOfRead /= <<>>
     /\ \A i \in DOMAIN PairsOfRead :
            PairsOfRead[i][1] /= None /\ PairsOfRead[i][2] /= None) =>
        /\ recon_pc = "body_done"
        /\ records /= <<>> /\ records[Len(records)] = read_no
        /\ record_seq = [i \in DOMAIN PairsOfRead |-> At(read.seq, PairsOfRead[i][1])]

\* C5: validated policy, no pair with a read position, template positions a
\* contiguous span first..last with first >= 0: the record is the unedited
\* template, each base once.
C5_AllGapsGiveTemplate ==
    (/\ policy = "strip"
     /\ BodyRan
     /\ PairsOfRead /= <<>>
     /\ \A i \in DOMAIN PairsOfRead :
            /\ PairsOfRead[i][1] = None
            /\ PairsOfRead[i][2] = PairsOfRead[1][2] + (i - 1)
            /\ PairsOfRead[i][2] >= 0) =>
        /\ recon_pc = "body_done"
        /\ records /= <<>> /\ records[Len(records)] = read_no
        /\ record_seq = templ_seq

\* The alignments the claim C10 takes to yield no output base.
NoOutputBase ==
    /\ PairsOfRead /= <<>>
    /\ \/ \A i \in DOMAIN PairsOfRead : PairsOfRead[i][2] = None
       \/ policy = "strip" /\ TemplIdx(PairsOfRead) \subseteq {None, 0}

\* C10: a read whose alignment yields no output base ends with no result:
\* no record for it, no exception, the loop goes on to the remaining reads;
\* for both variants.
C10_EmptyReconstructionIsNoResult ==
    (policy \in {"replace_indels", "strip"} /\ BodyRan /\ NoOutputBase) =>
        /\ recon_pc = "body_done"
        /\ \A i \in DOMAIN records : records[i] /= read_no

\* `for pair in read.aligned_pairs if pair[1] is not None`, line 58-59
HasTemplPos(pair) == pair[2] /= None

DefinedPairs == SelectSeq(PairsOfRead, HasTemplPos)

\* C12: validated policy, once the body of a read is joined: it holds one
\* base per pair with a defined template position p, in alignment order;
\* that base is the wildtype base at p, or the read's base of the pair, which
\* then is not N and equals the wildtype base at p or is among the bases of
\* the mutant-aware template's code at p; so the body has N only where the
\* wildtype template has N.
C12_ValidatedBodyBases ==
    (policy = "strip" /\ recon_pc = "body_done") =>
        /\ Len(joined_seq) = Len(DefinedPairs)
        /\ \A k \in DOMAIN DefinedPairs :
               LET q == DefinedPairs[k][1]
                   p == DefinedPairs[k][2]
               IN  /\ \/ joined_seq[k] = At(templ_seq, p)
                      \/ /\ q /= None
                         /\ joined_seq[k] = At(read.seq, q)
                         /\ At(read.seq, q) /= "N"
                         /\ \/ At(read.seq, q) = At(templ_seq, p)
                            \/ At(read.seq, q) \in
                                   INV_NUCL_CODES(At(mut_templ_seq, p))
                   /\ joined_seq[k] = "N" => At(templ_seq, p) = "N"

\* A read aligned base for base on the template NA, mutant-aware code M at
\* position 1: position 0 keeps the wildtype N, position 1 takes the read's
\* C, which differs from the wildtype A and is one of the bases of M.
C12_Witness ==
    /\ policy = "strip"
    /\ recon_pc = "body_done"
    /\ templ_seq = <<"N", "A">>
    /\ mut_templ_seq[2] = "M"
    /\ PairsOfRead = <<<<0, 0>>, <<1, 1>>>>
    /\ read.seq[2] = "C"
    /\ joined_seq = <<"N", "C">>

----------------------------------------------------------------------------
(* utils._get_ranges on its own *)

InitRanges ==
    /\ vals \in SeqsUpTo(1..MaxVal, MaxLen)
    /\ ranges = <<>>
    /\ ranges_pc = "call"
    /\ DemuxOff
    /\ scan = ScanOff
    /\ ReconOff
    /\ VcfOff

GetRanges ==
    /\ ranges_pc = "call"
    /\ ranges' = _get_ranges(vals)
    /\ ranges_pc' = "returned"
    /\ UNCHANGED <<vals, demux_vars, scan, recon_vars, vcf_vars>>

NextRanges == GetRanges

SpecRanges == InitRanges /\ [][NextRanges]_vars

StrictlyAscending(v) == \A i \in 1..(Len(v) - 1) : v[i] < v[i + 1]

ValuesOf(v) == {v[i] : i \in DOMAIN v}

\* C8: for an ascending duplicate-free input the ranges are ascending, each
\* a run start..end (start <= end) of integers all in the input, their
\* union the input set, no two consecutive ranges adjacent; a singleton p
\* gives (p, p), the empty input no range, [5,6,7] the range (5,7).
C8_RangesAreMaximalRuns ==
    (ranges_pc = "returned" /\ StrictlyAscending(vals)) =>
        /\ \A k \in DOMAIN ranges :
               /\ ranges[k][1] <= ranges[k][2]
               /\ (ranges[k][1]..ranges[k][2]) \subseteq ValuesOf(vals)
        /\ UNION {ranges[k][1]..ranges[k][2] : k \in DOMAIN ranges} = ValuesOf(vals)
        /\ \A k \in 1..(Len(ranges) - 1) : ranges[k + 1][1] > ranges[k][2] + 1
        /\ vals = <<>> => ranges = <<>>
        /\ Len(vals) = 1 => ranges = <<<<vals[1], vals[1]>>>>
        /\ vals = <<5, 6, 7>> => ranges = <<<<5, 7>>>>

\* [5,6,7] was compressed to the one range (5,7).
C8_Witness ==
    /\ ranges_pc = "returned"
    /\ vals = <<5, 6, 7>>
    /\ ranges = <<<<5, 7>>>>

\* C11: a call with input that is not strictly ascending (unsorted such as
\* [2,3,1], or with a duplicate such as [1,1]) never returns ranges: it ends
\* in an error raised to the caller.  _get_ranges has no raise on a list of
\* integers (lines 320-326: enumerate, groupby on y - x, append, return), so
\* the call returns, [2,3,1] as [(2,3),(1,1)] and [1,1] as [(1,1),(1,1)].
C11_UnsortedInputRaises ==
    ~StrictlyAscending(vals) => ranges_pc /= "returned"

----------------------------------------------------------------------------
(* utils.analyse_vcf over the DataFrame of utils._vcf_to_df *)

QSValues == {10, 90}
Depths == {0, 1, 2}

\* Rows of a file.  A row with the INFO term INDEL is an indel call; any
\* other row carries one QS value per allele of [REF] + ALT.
IndelRows ==
    [POS : {0}, REF : {"A"}, ALT : {<<"AG">>}, DP : Depths, INDEL : {TRUE},
     QS : {<<>>}]

BaseRows ==
    UNION { [POS : {0}, REF : {"A"}, ALT : {alt}, DP : Depths, INDEL : {FALSE},
             QS : [1..(1 + Len(alt)) -> QSValues]] :
            alt \in {<<"G">>, <<"G", "T">>} }

\* Files: rows ordered by position, positions unique.
WithPos(rows, pos) == [i \in DOMAIN rows |-> [rows[i] EXCEPT !.POS = pos[i]]]

AscendingPos(k, n) ==
    {pos \in [1..k -> 1..(n + 1)] : \A i \in 1..(k - 1) : pos[i] < pos[i + 1]}

\* A row of either kind.
Rows == IndelRows \cup BaseRows

DpFilters == {[num |-> 1, den |-> 2], [num |-> 3, den |-> 2]}

\* _expand_info (lines 286-291) joins one column per INFO key: the frame
\* has an INDEL column when some row of the file has the INDEL term, and
\* _vcf_to_df (lines 275-276) fills it with False on the other rows.
HasColumnINDEL(frame) == \E i \in DOMAIN frame : frame[i].INDEL

\* Line 159, `'INDEL' in row`: membership in a row (a pandas Series) tests
\* its labels, the frame's columns, not the row's value.
IndelTestByValue(frame, i) == frame[i].INDEL

IndelTest(frame, i) == HasColumnINDEL(frame)

\* df['DP'].max(), line 273
MaxDepth(frame) == MaxOf({frame[i].DP : i \in DOMAIN frame})

\* Lines 161-162: (dp_filter > 1 and row['DP'] > dp_filter)
\*                or row['DP_PROP'] > dp_filter,
\* with DP_PROP = DP / max DP; 0 / 0 is NaN, larger than nothing.
Admissible(frame, i, f) ==
    \/ f.num > f.den /\ frame[i].DP * f.den > f.num
    \/ MaxDepth(frame) > 0 /\ frame[i].DP * f.den > f.num * MaxDepth(frame)

\* np.argmax(qs): the first index holding the maximum.
ArgMax(qs) == CHOOSE k \in DOMAIN qs :
                  /\ \A j \in DOMAIN qs : qs[j] <= qs[k]
                  /\ \A j \in 1..(k - 1) : qs[j] < qs[k]

\* alleles = [row['REF']] + row['ALT'].split(',')
Alleles(row) == <<row.REF>> \o row.ALT

InitVcf ==
    /\ \E k \in 0..MaxRows :
         \E rows \in [1..k -> Rows], pos \in AscendingPos(k, MaxRows) :
             df = WithPos(rows, pos)
    /\ dp_filter \in DpFilters
    /\ row_idx = 0
    /\ num_matches = 0
    /\ mutations = <<>>
    /\ indels = <<>>
    /\ deletions = <<>>
    /\ vcf_result = <<>>
    /\ vcf_pc = "loop"
    /\ DemuxOff
    /\ scan = ScanOff
    /\ ReconOff
    /\ RangesOff

\* Lines 158-180: the loop body on the next row.
VcfRow ==
    /\ vcf_pc = "loop"
    /\ row_idx < Len(df)
    /\ LET i == row_idx + 1
           row == df[i]
       IN  /\ row_idx' = i
           /\ IF IndelTest(df, i)
              THEN /\ indels' = Append(indels, <<row.REF, row.POS, row.ALT>>)
                   /\ UNCHANGED <<num_matches, mutations, deletions>>
              ELSE IF Admissible(df, i, dp_filter)
              THEN LET hi_prob_base == Alleles(row)[ArgMax(row.QS)]
                   IN  IF row.REF /= hi_prob_base
                       THEN /\ mutations' = Append(mutations,
                                   <<row.REF, row.POS, hi_prob_base,
                                     row.QS[ArgMax(row.QS)]>>)
                            /\ UNCHANGED <<num_matches, indels, deletions>>
                       ELSE /\ num_matches' = num_matches + 1
                            /\ UNCHANGED <<mutations, indels, deletions>>
              ELSE /\ deletions' = Append(deletions, row.POS)
                   /\ UNCHANGED <<num_matches, mutations, indels>>
    /\ UNCHANGED <<df, dp_filter, vcf_result, vcf_pc,
                   demux_vars, scan, recon_vars, ranges_vars>>

\* Line 182.
VcfReturn ==
    /\ vcf_pc = "loop"
    /\ row_idx = Len(df)
    /\ vcf_result' = _get_ranges_str(deletions)
    /\ vcf_pc' = "returned"
    /\ UNCHANGED <<df, dp_filter, row_idx, num_matches, mutations, indels,
                   deletions, demux_vars, scan, recon_vars, ranges_vars>>

NextVcf == VcfRow \/ VcfReturn

SpecVcf == InitVcf /\ [][NextVcf]_vars

\* The indices i..Len(flag), in order, at which flag holds.
RECURSIVE IndicesFrom(_, _)
IndicesFrom(flag, i) ==
    IF i > Len(flag) THEN <<>>
    ELSE (IF flag[i] THEN <<i>> ELSE <<>>) \o IndicesFrom(flag, i + 1)

Flagged(i) == df[i].INDEL
Unflagged(i) == ~df[i].INDEL

\* The reference's QS is >= every alternate's.
RefWins(i) == \A j \in DOMAIN df[i].QS : df[i].QS[1] >= df[i].QS[j]

\* (depth_filter > 1 and depth > depth_filter) or depth / max_depth > depth_filter
ClaimAdmissible(i) ==
    \/ dp_filter.num > dp_filter.den /\ df[i].DP * dp_filter.den > dp_filter.num
    \/ MaxDepth(df) > 0 /\
       df[i].DP * dp_filter.den > dp_filter.num * MaxDepth(df)

MatchRow(i) == Unflagged(i) /\ ClaimAdmissible(i) /\ RefWins(i)
MutationRow(i) == Unflagged(i) /\ ClaimAdmissible(i) /\ ~RefWins(i)

FlaggedRows == IndicesFrom([i \in DOMAIN df |-> Flagged(i)], 1)
UnflaggedRows == IndicesFrom([i \in DOMAIN df |-> Unflagged(i)], 1)
MatchRows == IndicesFrom([i \in DOMAIN df |-> MatchRow(i)], 1)
MutationRows == IndicesFrom([i \in DOMAIN df |-> MutationRow(i)], 1)

\* C6: a row is recorded in indels exactly when it carries the indel flag
\* itself; a flagged row adds nothing to matches, mutations or deletion
\* candidates, an unflagged row is a match, a mutation or a deletion
\* candidate and never an indel.
C6_IndelIffRowFlagged ==
    vcf_pc = "returned" =>
        /\ indels = [k \in DOMAIN FlaggedRows |->
                        LET row == df[FlaggedRows[k]]
                        IN  <<row.REF, row.POS, row.ALT>>]
        /\ num_matches + Len(mutations) + Len(deletions) = Len(UnflaggedRows)

\* C7: every admissible unflagged row is a match when the reference's QS is
\* >= every alternate's, and otherwise exactly one mutation record with the
\* reference, the position, the first alternate of maximal QS and that QS.
C7_ArgmaxAlleleClassified ==
    vcf_pc = "returned" =>
        /\ num_matches = Len(MatchRows)
        /\ mutations = [k \in DOMAIN MutationRows |->
                           LET row == df[MutationRows[k]]
                               best == CHOOSE a \in 2..Len(row.QS) :
                                          /\ \A j \in DOMAIN row.QS : row.QS[j] <= row.QS[a]
                                          /\ \A j \in 2..(a - 1) : row.QS[j] < row.QS[a]
                           IN  <<row.REF, row.POS, row.ALT[best - 1], row.QS[best]>>]

====
